---- MODULE Spec2Model ----
(***************************************************************************)
(* Model of the connector of go-flink-sql (connector.go and the driver     *)
(* entry points that follow it in the same file), and of the poller, pager *)
(* and row cursor that a statement on one of its connections goes through. *)
(*                                                                         *)
(* A Go string is a sequence of one-character strings, so that cutting a   *)
(* connection string at '?' and splitting its query are computed character *)
(* by character.  A Go map[string]string is a function whose domain is the *)
(* set of keys; a nil map and an empty map are both the empty function.    *)
(***************************************************************************)
EXTENDS Integers, Sequences, FiniteSets, TLC

\* ------------------------------------------------------------------ bounds

\* Number of goroutines that call Connect and Close on the one connector.
NumThreads == 2

\* Total number of Connect and Close calls started in one behaviour.
MaxCalls == 3

\* Largest number of '&'-separated segments in the query of a generated DSN.
MaxSegments == 2

\* Largest number of status polls of one operation.
MaxPolls == 3

\* Largest number of pages of one result, and of rows of one page.
MaxPages == 3

MaxRows == 2

\* ----------------------------------------------------------------- strings

EmptyString == << >>

EmptyMap == << >>

Threads == 1 .. NumThreads

\* Position of the first occurrence of character ch in s, 0 when absent.
RECURSIVE IndexFrom(_, _, _)
IndexFrom(s, ch, i) ==
    IF i > Len(s) THEN 0
    ELSE IF s[i] = ch THEN i
    ELSE IndexFrom(s, ch, i + 1)

Index(s, ch) == IndexFrom(s, ch, 1)

\* strings.Cut(s, sep) for a one-character separator: the text before and
\* after the first sep, and whether sep was found.
CutAtWholeString(s, ch) ==
    [before |-> s, after |-> EmptyString, found |-> Index(s, ch) # 0]

Cut(s, ch) ==
    LET i == Index(s, ch)
    IN  IF i = 0
        THEN [before |-> s, after |-> EmptyString, found |-> FALSE]
        ELSE [before |-> SubSeq(s, 1, i - 1),
              after  |-> SubSeq(s, i + 1, Len(s)),
              found  |-> TRUE]

\* strings.Split(s, sep) for a one-character separator.
RECURSIVE Split(_, _)
Split(s, ch) ==
    LET c == Cut(s, ch)
    IN  IF c.found THEN <<c.before>> \o Split(c.after, ch) ELSE <<s>>

\* m with m[k] = v, as the Go statement m[k] = v leaves the map.
MapSet(m, k, v) ==
    [x \in DOMAIN m \cup {k} |-> IF x = k THEN v ELSE m[x]]

\* ----------------------------------------------------- connection settings

DefaultGatewayURL ==
    <<"h","t","t","p",":","/","/","l","o","c","a","l","h","o","s","t",
      ":","8","0","8","1">>

DefaultAPIVersion == <<"v","3">>

WithDefaults ==
    [GatewayURL |-> DefaultGatewayURL,
     Client     |-> "http.DefaultClient",
     APIVersion |-> DefaultAPIVersion,
     Properties |-> EmptyMap]

\* The option closures, applied to a ConnConfig c.
WithGatewayURL(gatewayUrl, c) == [c EXCEPT !.GatewayURL = gatewayUrl]

WithClient(client, c) == [c EXCEPT !.Client = client]

WithAPIVersion(apiVersion, c) == [c EXCEPT !.APIVersion = apiVersion]

\* A plausible slip: existing keys are kept instead of overwritten.
WithPropertiesKeepExisting(properties, c) ==
    [c EXCEPT !.Properties =
        [k \in DOMAIN c.Properties \cup DOMAIN properties |->
            IF k \in DOMAIN c.Properties THEN c.Properties[k]
            ELSE properties[k]]]

\* for k, v := range properties { c.Properties[k] = v }: the keys of a map
\* are distinct, so the result does not depend on the iteration order.
WithProperties(properties, c) ==
    [c EXCEPT !.Properties =
        [k \in DOMAIN c.Properties \cup DOMAIN properties |->
            IF k \in DOMAIN properties THEN properties[k]
            ELSE c.Properties[k]]]

\* A ConnOption value is a record naming the closure and its captured
\* argument; ApplyOption is the call opt(cfg).
ApplyOption(opt, c) ==
    CASE opt.option = "WithGatewayURL" -> WithGatewayURL(opt.arg, c)
      [] opt.option = "WithClient"     -> WithClient(opt.arg, c)
      [] opt.option = "WithAPIVersion" -> WithAPIVersion(opt.arg, c)
      [] opt.option = "WithProperties" -> WithProperties(opt.arg, c)

\* for _, opt := range options { opt(cfg) }
RECURSIVE ApplyOptions(_, _)
ApplyOptions(options, c) ==
    IF options = << >> THEN c
    ELSE ApplyOptions(Tail(options), ApplyOption(Head(options), c))

\* ------------------------------------------------ construction of connectors

Nil == [nil |-> TRUE]

\* parseURIParameters(rawQuery): the query is split at '&' and every segment
\* at its first '='; a segment without '=' is an error; a repeated key keeps
\* the value applied last.
RECURSIVE parseSegments(_, _)
parseSegments(segments, acc) ==
    IF segments = << >> THEN [err |-> FALSE, props |-> acc]
    ELSE LET kv == Cut(Head(segments), "=")
         IN  IF ~kv.found THEN [err |-> TRUE, props |-> EmptyMap]
             ELSE parseSegments(Tail(segments),
                                MapSet(acc, kv.before, kv.after))

parseURIParameters(rawQuery) == parseSegments(Split(rawQuery, "&"), EmptyMap)

\* mergeProperties(gatewayURL, properties): the properties carried by the
\* query of the gateway URL, overridden by the explicit properties.
mergeProperties(gatewayURL, properties) ==
    LET q == Cut(gatewayURL, "?")
        fromURL == IF q.found /\ q.after # EmptyString
                   THEN parseURIParameters(q.after)
                   ELSE [err |-> FALSE, props |-> EmptyMap]
    IN  IF fromURL.err THEN [err |-> TRUE, props |-> EmptyMap]
        ELSE [err |-> FALSE,
              props |-> [k \in DOMAIN fromURL.props \cup DOMAIN properties |->
                            IF k \in DOMAIN properties THEN properties[k]
                            ELSE fromURL.props[k]]]

\* NewClient(gatewayURL, client, apiVersion): whether the client can be
\* built is decided outside the connector; clientOk is that outcome.
NewClient(gatewayURL, client, apiVersion, clientOk) ==
    [err |-> ~clientOk,
     client |-> [url |-> gatewayURL, apiVersion |-> apiVersion]]

\* NewConnector(options...).  clients counts the calls of NewClient.
NewConnector(options, clientOk) ==
    LET cfg == ApplyOptions(options, WithDefaults)
        merged == mergeProperties(cfg.GatewayURL, cfg.Properties)
        flinkClient == NewClient(cfg.GatewayURL, cfg.Client, cfg.APIVersion,
                                 clientOk)
    IN  IF merged.err
        THEN [err |-> "merge", connector |-> Nil, clients |-> 0]
        ELSE IF flinkClient.err
        THEN [err |-> "client", connector |-> Nil, clients |-> 1]
        ELSE [err |-> "nil",
              connector |-> [client        |-> flinkClient.client,
                             sessionHandle |-> EmptyString,
                             config        |-> cfg,
                             properties    |-> merged.props],
              clients |-> 1]

\* A plausible slip: the error of parseURIParameters is dropped and the
\* connector is built from the base DSN alone.
OpenConnectorIgnoringInvalid(dsn, clientOk) ==
    LET cut == Cut(dsn, "?")
        baseDSN == IF cut.found THEN cut.before ELSE dsn
        parsed == IF cut.found /\ cut.after # EmptyString
                  THEN parseURIParameters(cut.after)
                  ELSE [err |-> FALSE, props |-> EmptyMap]
        properties == parsed.props
        options == <<[option |-> "WithGatewayURL", arg |-> baseDSN]>>
                   \o IF DOMAIN properties # {}
                      THEN <<[option |-> "WithProperties", arg |-> properties]>>
                      ELSE << >>
    IN  NewConnector(options, clientOk)

\* sqlDriver.OpenConnector(dsn)
OpenConnector(dsn, clientOk) ==
    LET cut == Cut(dsn, "?")
        baseDSN == IF cut.found THEN cut.before ELSE dsn
        parsed == IF cut.found /\ cut.after # EmptyString
                  THEN parseURIParameters(cut.after)
                  ELSE [err |-> FALSE, props |-> EmptyMap]
        properties == parsed.props
        options == <<[option |-> "WithGatewayURL", arg |-> baseDSN]>>
                   \o IF DOMAIN properties # {}
                      THEN <<[option |-> "WithProperties", arg |-> properties]>>
                      ELSE << >>
    IN  IF parsed.err
        THEN [err |-> "dsn", connector |-> Nil, clients |-> 0]
        ELSE NewConnector(options, clientOk)

\* ------------------------------------------------------------------ gateway

\* The handle the gateway gives to the n-th OpenSession request.
Handle(n) == <<"s", ToString(n)>>

\* GatewayClient.OpenSession: a fresh, non-empty handle, or the empty string
\* and an error (transport failure or non-2xx response).
OpenSession(ok, n) ==
    [sessionHandle |-> IF ok THEN Handle(n) ELSE EmptyString, err |-> ~ok]

\* GatewayClient.CloseSession(handle): fails on a transport failure and for
\* a session the gateway no longer has.
CloseSession(ok, handle, sessions) ==
    IF ok /\ handle \in sessions THEN "ok" ELSE "fail"

\* ------------------------------------------------------------------- inputs

Keys == {<<"a">>, <<"b">>}

Values == {<<"1">>, <<"2">>}

\* The property maps over Keys and Values, the empty one included.
PropertyMaps ==
    UNION {[D -> Values] : D \in SUBSET Keys}

URLs == {<<"u">>, <<"h", ":", "8">>}

\* strings.Join(parts, sep)
RECURSIVE Join(_, _)
Join(parts, sep) ==
    IF parts = << >> THEN EmptyString
    ELSE IF Len(parts) = 1 THEN Head(parts)
    ELSE Head(parts) \o sep \o Join(Tail(parts), sep)

\* The segments a generated query is made of: key=value, a bare key, the
\* empty segment, and segments with an empty key or value or a second '='.
Segments ==
    {k \o <<"=">> \o v : k \in Keys, v \in Values}
      \cup Keys
      \cup {EmptyString, <<"a", "=">>, <<"=", "1">>,
            <<"a", "=", "1", "=", "2">>}

SegmentLists == UNION {[1 .. n -> Segments] : n \in 1 .. MaxSegments}

\* The connection strings given to OpenConnector.
DSNs ==
    URLs \cup {u \o <<"?">> \o Join(sl, <<"&">>) :
                  u \in URLs, sl \in SegmentLists}

\* The option lists WithProperties(A), WithProperties(B) given to NewConnector.
PropertyOptionLists ==
    {<<[option |-> "WithProperties", arg |-> A],
       [option |-> "WithProperties", arg |-> B]>> :
        A \in PropertyMaps, B \in PropertyMaps}

\* Option lists of the connector that Connect and Close are run on.
ConnectorOptions ==
    {<< >>,
     <<[option |-> "WithProperties", arg |-> (<<"a">> :> <<"1">>)]>>,
     <<[option |-> "WithGatewayURL", arg |-> <<"u", "?", "a", "=", "1">>],
       [option |-> "WithProperties", arg |-> (<<"b">> :> <<"2">>)]>>}

\* -------------------------------------------------------------------- state

VARIABLES
    made,          \* "none", or the constructor that has run
    dsn,           \* the connection string given to OpenConnector
    options,       \* the options given to NewConnector
    connector,     \* the connector (client, sessionHandle, config, properties)
    constructErr,  \* the error the constructor returned, "nil" for none
    clientsBuilt,  \* calls of NewClient so far
    pc,            \* per goroutine: position in Connect
    local,         \* per goroutine: the values OpenSession returned to it
    opensInCall,   \* per goroutine: OpenSession requests of its current call
    begun,         \* per goroutine: what had been closed when its call began
    ret,           \* per goroutine: what its last call returned
    conns,         \* the connections Connect has returned, in order
    openLog,       \* the OpenSession requests the gateway has received
    closeLog,      \* the CloseSession requests the gateway has received
    sessions,      \* the sessions the gateway holds open
    nCalls,        \* Connect, Close and Open calls started
    nClose,        \* Close calls made
    opened,        \* what each sqlDriver.Open call was given and returned
    poller,        \* the Operation Poller of one submitted statement
    ctx,           \* the caller's context of that statement: "live" or "done"
    pages,         \* the result pages the gateway holds for one operation
    pager          \* the Result Pager and Row Cursor over those pages

vars == <<made, dsn, options, connector, constructErr, clientsBuilt, pc, local,
          opensInCall, begun, ret, conns, openLog, closeLog, sessions, nCalls,
          nClose, opened, poller, ctx, pages, pager>>

statementVars == <<poller, ctx, pages, pager>>

threadVars == <<pc, local, opensInCall, begun, ret, conns, openLog, closeLog,
                sessions, nCalls, nClose>>

Init ==
    /\ made = "none"
    /\ dsn = EmptyString
    /\ options = << >>
    /\ connector = Nil
    /\ constructErr = "none"
    /\ clientsBuilt = 0
    /\ pc = [t \in Threads |-> "idle"]
    /\ local = [t \in Threads |-> [sessionHandle |-> EmptyString, err |-> FALSE]]
    /\ opensInCall = [t \in Threads |-> 0]
    /\ begun = [t \in Threads |-> [closes |-> 0, closed |-> {}]]
    /\ ret = [t \in Threads |->
                [op |-> "none", err |-> "nil", closeSession |-> "none"]]
    /\ conns = << >>
    /\ openLog = << >>
    /\ closeLog = << >>
    /\ sessions = {}
    /\ nCalls = 0
    /\ nClose = 0
    /\ opened = << >>
    /\ poller = [pc |-> "idle", reported |-> << >>, result |-> "none",
                 cancelSent |-> FALSE]
    /\ ctx = "live"
    /\ pages = << >>
    /\ pager = [pc |-> "idle", next |-> 0, pageRows |-> 0, buffer |-> << >>,
                yielded |-> << >>, fetched |-> << >>]

\* ------------------------------------------------------------- construction

\* NewConnector(options...) run on one of the option lists of optionLists.
Construct(optionLists) ==
    /\ made = "none"
    /\ \E opts \in optionLists, clientOk \in BOOLEAN :
         LET r == NewConnector(opts, clientOk)
         IN  /\ made' = "NewConnector"
             /\ options' = opts
             /\ connector' = r.connector
             /\ constructErr' = r.err
             /\ clientsBuilt' = clientsBuilt + r.clients
    /\ UNCHANGED <<dsn, threadVars>>
    /\ UNCHANGED <<opened, statementVars>>

NewConnectorAct == Construct(ConnectorOptions)

\* ------------------------------------------------------- Connect and Close

\* if c.sessionHandle == ""
NeedsSessionAlways(sessionHandle) == TRUE

NeedsSession(sessionHandle) == sessionHandle = EmptyString

\* if err != nil { return nil, fmt.Errorf(...) }
AfterOpenSessionIgnoringErr(err) == "return"

AfterOpenSession(err) == IF err THEN "idle" ELSE "return"

\* Connect, up to the test of c.sessionHandle.
ConnectBegin(t) ==
    /\ pc[t] = "idle"
    /\ constructErr = "nil"
    /\ nCalls < MaxCalls
    /\ nCalls' = nCalls + 1
    /\ opensInCall' = [opensInCall EXCEPT ![t] = 0]
    /\ begun' = [begun EXCEPT ![t] =
                    [closes |-> nClose,
                     closed |-> {closeLog[i].handle : i \in DOMAIN closeLog}]]
    /\ pc' = [pc EXCEPT ![t] = IF NeedsSession(connector.sessionHandle)
                               THEN "open" ELSE "return"]
    /\ UNCHANGED <<made, dsn, options, connector, constructErr, clientsBuilt,
                   local, ret, conns, openLog, closeLog, sessions, nClose>>
    /\ UNCHANGED <<opened, statementVars>>

\* The call c.client.OpenSession(ctx, &OpenSessionRequest{Properties: ...}).
ConnectOpenSession(t) ==
    /\ pc[t] = "open"
    /\ \E ok \in BOOLEAN :
         LET r == OpenSession(ok, Len(openLog) + 1)
         IN  /\ openLog' = Append(openLog,
                                  [props  |-> connector.properties,
                                   handle |-> r.sessionHandle,
                                   err    |-> r.err,
                                   thread |-> t])
             /\ sessions' = IF r.err THEN sessions
                            ELSE sessions \cup {r.sessionHandle}
             /\ local' = [local EXCEPT ![t] = r]
    /\ opensInCall' = [opensInCall EXCEPT ![t] = @ + 1]
    /\ pc' = [pc EXCEPT ![t] = "assign"]
    /\ UNCHANGED <<made, dsn, options, connector, constructErr, clientsBuilt,
                   begun, ret, conns, closeLog, nCalls, nClose>>
    /\ UNCHANGED <<opened, statementVars>>

\* The assignment c.sessionHandle, err = ... and the test of err.
ConnectAssign(t) ==
    /\ pc[t] = "assign"
    /\ connector' = [connector EXCEPT !.sessionHandle = local[t].sessionHandle]
    /\ pc' = [pc EXCEPT ![t] = AfterOpenSession(local[t].err)]
    /\ ret' = IF pc'[t] = "idle"
              THEN [ret EXCEPT ![t] = [op |-> "Connect", err |-> "open session",
                                       closeSession |-> "none"]]
              ELSE ret
    /\ UNCHANGED <<made, dsn, options, constructErr, clientsBuilt, local,
                   opensInCall, begun, conns, openLog, closeLog, sessions,
                   nCalls, nClose>>
    /\ UNCHANGED <<opened, statementVars>>

\* return &flinkConn{client: c.client, sessionHandle: c.sessionHandle}, nil
ConnectReturn(t) ==
    /\ pc[t] = "return"
    /\ conns' = Append(conns, [sessionHandle  |-> connector.sessionHandle,
                               thread         |-> t,
                               closesAtBegin  |-> begun[t].closes,
                               closedAtBegin  |-> begun[t].closed,
                               closesAtReturn |-> nClose])
    /\ ret' = [ret EXCEPT ![t] = [op |-> "Connect", err |-> "nil",
                                  closeSession |-> "none"]]
    /\ pc' = [pc EXCEPT ![t] = "idle"]
    /\ UNCHANGED <<made, dsn, options, connector, constructErr, clientsBuilt,
                   local, opensInCall, begun, openLog, closeLog, sessions,
                   nCalls, nClose>>
    /\ UNCHANGED <<opened, statementVars>>

\* return nil, whatever CloseSession did.
CloseResultOfCloseSession(outcome) == IF outcome = "fail" THEN "close session" ELSE "nil"

CloseResult(outcome) == "nil"

\* if c.sessionHandle != ""
HasSessionAlways(sessionHandle) == TRUE

HasSession(sessionHandle) == sessionHandle # EmptyString

\* connector.Close()
Close(t) ==
    /\ pc[t] = "idle"
    /\ constructErr = "nil"
    /\ nCalls < MaxCalls
    /\ nCalls' = nCalls + 1
    /\ nClose' = nClose + 1
    /\ \/ /\ HasSession(connector.sessionHandle)
          /\ \E ok \in BOOLEAN :
               LET outcome == CloseSession(ok, connector.sessionHandle, sessions)
               IN  /\ closeLog' = Append(closeLog,
                                         [handle  |-> connector.sessionHandle,
                                          outcome |-> outcome,
                                          thread  |-> t])
                   /\ sessions' = IF outcome = "ok"
                                  THEN sessions \ {connector.sessionHandle}
                                  ELSE sessions
                   /\ ret' = [ret EXCEPT ![t] =
                                [op |-> "Close", err |-> CloseResult(outcome),
                                 closeSession |-> outcome]]
       \/ /\ ~HasSession(connector.sessionHandle)
          /\ ret' = [ret EXCEPT ![t] =
                        [op |-> "Close", err |-> CloseResult("none"),
                         closeSession |-> "none"]]
          /\ UNCHANGED <<closeLog, sessions>>
    /\ UNCHANGED <<made, dsn, options, connector, constructErr, clientsBuilt,
                   pc, local, opensInCall, begun, conns, openLog>>
    /\ UNCHANGED <<opened, statementVars>>

Next ==
    \/ NewConnectorAct
    \/ \E t \in Threads : ConnectBegin(t)
    \/ \E t \in Threads : ConnectOpenSession(t)
    \/ \E t \in Threads : ConnectAssign(t)
    \/ \E t \in Threads : ConnectReturn(t)
    \/ \E t \in Threads : Close(t)

Spec == Init /\ [][Next]_vars

\* One goroutine at a time: a call runs to its end before the next begins.
OthersIdle(t) == \A u \in Threads \ {t} : pc[u] = "idle"

SeqNext ==
    \/ NewConnectorAct
    \/ \E t \in Threads : OthersIdle(t) /\ ConnectBegin(t)
    \/ \E t \in Threads : OthersIdle(t) /\ ConnectOpenSession(t)
    \/ \E t \in Threads : OthersIdle(t) /\ ConnectAssign(t)
    \/ \E t \in Threads : OthersIdle(t) /\ ConnectReturn(t)
    \/ \E t \in Threads : OthersIdle(t) /\ Close(t)

SeqSpec == Init /\ [][SeqNext]_vars

\* sqlDriver.OpenConnector(dsn) run on one of the connection strings.
OpenConnectorAct ==
    /\ made = "none"
    /\ \E d \in DSNs, clientOk \in BOOLEAN :
         LET r == OpenConnector(d, clientOk)
         IN  /\ made' = "OpenConnector"
             /\ dsn' = d
             /\ connector' = r.connector
             /\ constructErr' = r.err
             /\ clientsBuilt' = clientsBuilt + r.clients
    /\ UNCHANGED <<options, threadVars>>
    /\ UNCHANGED <<opened, statementVars>>

NewConnectorWithProperties == Construct(PropertyOptionLists)

ConfigNext ==
    \/ OpenConnectorAct
    \/ NewConnectorWithProperties

ConfigSpec == Init /\ [][ConfigNext]_vars

\* ------------------------------------------------------------------- claims

SuccessfulOpens == {i \in DOMAIN openLog : ~openLog[i].err}

\* C1: however two or more Connect calls that begin while the connector has
\* no session interleave, at most one OpenSession request succeeds.
C1_AtMostOneSessionOpened == Cardinality(SuccessfulOpens) <= 1

\* No Close call was made between the beginning of the earlier and the
\* return of the later of the Connect calls that returned conns[i], conns[j].
NoCloseBetween(i, j) ==
    /\ conns[i].closesAtBegin = conns[j].closesAtReturn
    /\ conns[j].closesAtBegin = conns[j].closesAtReturn

\* C2: any two connections returned by Connect on the connector, with no
\* Close in between, are bound to the same session handle.
C2_ConnectionsShareSession ==
    \A i \in DOMAIN conns : \A j \in DOMAIN conns :
        (i < j /\ NoCloseBetween(i, j))
            => conns[i].sessionHandle = conns[j].sessionHandle

\* C3: a connection is never bound to a handle for which Close had issued
\* CloseSession before the Connect call that returned it began.
C3_ClosedSessionNeverReused ==
    \A i \in DOMAIN conns :
        conns[i].sessionHandle \notin conns[i].closedAtBegin

\* The first Connect call ends in this step.
FirstConnectEnds(t) ==
    /\ nCalls - nClose = 1
    /\ pc[t] # "idle"
    /\ pc'[t] = "idle"

\* C4: run one call after another, NewConnector issues no OpenSession, the
\* first Connect issues exactly one, carrying the connector's merged
\* properties, and no OpenSession is issued once a Connect has succeeded.
C4_SessionOpenedLazilyOnce ==
    [][ /\ made = "none" => openLog' = << >>
        /\ \A t \in Threads :
             FirstConnectEnds(t) =>
                /\ opensInCall'[t] = 1
                /\ Len(openLog') = 1
                /\ openLog'[1].props = connector'.properties
                /\ openLog'[1].props =
                     mergeProperties(connector'.config.GatewayURL,
                                     connector'.config.Properties).props
        /\ conns # << >> => openLog' = openLog ]_vars

\* Two Connect calls have succeeded, one after the other, on one session.
C4_Witness ==
    /\ Len(conns) >= 2
    /\ Len(openLog) = 1
    /\ openLog[1].props # EmptyMap

\* C5: once the connector's session handle is non-empty it never changes.
C5_SessionHandleWriteOnce ==
    [][ (constructErr = "nil" /\ connector.sessionHandle # EmptyString)
            => connector'.sessionHandle = connector.sessionHandle ]_vars

\* C6: Close returns no error, whether CloseSession succeeded, failed or
\* was not called.
C6_CloseReturnsNoError ==
    \A t \in Threads : ret[t].op = "Close" => ret[t].err = "nil"

\* A Close whose CloseSession failed has returned.
C6_Witness ==
    \E t \in Threads :
        /\ ret[t].op = "Close"
        /\ ret[t].closeSession = "fail"
        /\ ret[t].err = "nil"

\* Goroutine t learns in this step that its OpenSession request failed.
OpenSessionFailedFor(t) ==
    /\ pc[t] = "assign"
    /\ local[t].err
    /\ pc'[t] # "assign"

\* C7: a Connect whose OpenSession fails returns an error and no connection
\* after exactly one OpenSession request, and leaves the connector without
\* a session handle; a Connect that finds no handle requests a session.
C7_OpenSessionFailurePropagates ==
    [][ \A t \in Threads :
          /\ OpenSessionFailedFor(t) =>
                /\ pc'[t] = "idle"
                /\ ret'[t].op = "Connect"
                /\ ret'[t].err # "nil"
                /\ conns' = conns
                /\ opensInCall[t] = 1
                /\ openLog' = openLog
                /\ connector'.sessionHandle = EmptyString
          /\ (/\ pc[t] = "idle"
              /\ pc'[t] # "idle"
              /\ connector.sessionHandle = EmptyString) => pc'[t] = "open" ]_vars

\* A Connect has failed and a later Connect has requested a session again.
C7_Witness ==
    \E t \in Threads :
        /\ ret[t].op = "Connect"
        /\ ret[t].err # "nil"
        /\ pc[t] = "open"
        /\ Len(openLog) >= 1
        /\ connector.sessionHandle = EmptyString

\* C8: for a connection string url?k1=v1&k2=v2 whose url the gateway client
\* accepts, OpenConnector returns a connector whose GatewayURL is url and
\* whose Properties is exactly {k1: v1, k2: v2}.
C8_OpenConnectorParsesDSN ==
    \A u \in URLs : \A k1 \in Keys : \A k2 \in Keys \ {k1} :
      \A v1 \in Values : \A v2 \in Values :
        (/\ made = "OpenConnector"
         /\ dsn = u \o <<"?">> \o k1 \o <<"=">> \o v1
                    \o <<"&">> \o k2 \o <<"=">> \o v2
         /\ constructErr # "client")
            => /\ constructErr = "nil"
               /\ connector.config.GatewayURL = u
               /\ connector.config.Properties = (k1 :> v1) @@ (k2 :> v2)
               /\ DOMAIN connector.config.Properties = {k1, k2}

\* OpenConnector has returned a connector for h:8?b=2&a=1.
C8_Witness ==
    /\ made = "OpenConnector"
    /\ dsn = <<"h", ":", "8", "?", "b", "=", "2", "&", "a", "=", "1">>
    /\ constructErr = "nil"
    /\ DOMAIN connector.config.Properties = {<<"a">>, <<"b">>}

\* The connection string is a url followed by a query one of whose segments
\* is a key with no '=value'.
HasKeyWithoutValue(d) ==
    \E u \in URLs : \E sl \in SegmentLists :
        /\ d = u \o <<"?">> \o Join(sl, <<"&">>)
        /\ \E i \in DOMAIN sl : sl[i] \in Keys

\* C9: for a connection string with a key that has no '=value', OpenConnector
\* returns an error and no connector, builds no gateway client and opens no
\* session.
C9_InvalidDSNIsAnError ==
    (made = "OpenConnector" /\ HasKeyWithoutValue(dsn))
        => /\ constructErr = "dsn"
           /\ connector = Nil
           /\ clientsBuilt = 0
           /\ openLog = << >>

\* OpenConnector has refused u?a=1&b.
C9_Witness ==
    /\ made = "OpenConnector"
    /\ dsn = <<"u", "?", "a", "=", "1", "&", "b">>
    /\ constructErr = "dsn"

\* config.Properties of the connector that NewConnector builds from
\* WithProperties(A), WithProperties(B).
MergedBy(A, B) ==
    NewConnector(<<[option |-> "WithProperties", arg |-> A],
                   [option |-> "WithProperties", arg |-> B]>>,
                 TRUE).connector.config.Properties

\* C10: NewConnector with WithProperties(A) then WithProperties(B) yields
\* Properties with every key of A and B and B's value for the keys of both;
\* when A and B share no key the result is that of B then A.
C10_WithPropertiesRightBiased ==
    \A A \in PropertyMaps : \A B \in PropertyMaps :
        (/\ made = "NewConnector"
         /\ constructErr = "nil"
         /\ options = <<[option |-> "WithProperties", arg |-> A],
                        [option |-> "WithProperties", arg |-> B]>>)
            => LET P == connector.config.Properties
               IN  /\ DOMAIN P = DOMAIN A \cup DOMAIN B
                   /\ \A k \in DOMAIN B : P[k] = B[k]
                   /\ \A k \in DOMAIN A \ DOMAIN B : P[k] = A[k]
                   /\ (DOMAIN A \cap DOMAIN B = {}) => P = MergedBy(B, A)

\* {a: 1} then {a: 2} has been merged to {a: 2}.
C10_Witness ==
    /\ made = "NewConnector"
    /\ constructErr = "nil"
    /\ options = <<[option |-> "WithProperties", arg |-> (<<"a">> :> <<"1">>)],
                   [option |-> "WithProperties", arg |-> (<<"a">> :> <<"2">>)]>>
    /\ connector.config.Properties = (<<"a">> :> <<"2">>)

ClosedHandles(log) == {log[j].handle : j \in DOMAIN log}

\* C13: when Close is called after every Connect call has returned, every
\* handle that a successful OpenSession returned for the connector has been
\* passed to CloseSession once Close returns.
C13_NoSessionLeaked ==
    [][ (nClose' = nClose + 1 /\ \A u \in Threads : pc[u] = "idle")
            => \A i \in SuccessfulOpens :
                  openLog[i].handle \in ClosedHandles(closeLog') ]_vars

\* C14: over any sequence of Close calls, CloseSession is issued at most
\* once for a given session handle.
C14_CloseSessionAtMostOncePerHandle ==
    \A i \in DOMAIN closeLog : \A j \in DOMAIN closeLog :
        i # j => closeLog[i].handle # closeLog[j].handle

\* C15: a Close on a connector for which no OpenSession has succeeded issues
\* no CloseSession and leaves the connector as it was.
C15_CloseWithoutSessionChangesNothing ==
    [][ (nClose' = nClose + 1 /\ SuccessfulOpens = {})
            => /\ closeLog' = closeLog
               /\ sessions' = sessions
               /\ connector' = connector
               /\ openLog' = openLog
               /\ conns' = conns ]_vars

\* Close has been called after a Connect whose OpenSession failed.
C15_Witness ==
    /\ nClose >= 1
    /\ openLog # << >>
    /\ SuccessfulOpens = {}
    /\ closeLog = << >>
    /\ \E t \in Threads : ret[t].op = "Close"

\* C16: every connection Connect has returned is bound to a non-empty handle
\* that a successful OpenSession returned for the connector.
C16_ConnectionBoundToOpenedSession ==
    \A i \in DOMAIN conns :
        /\ conns[i].sessionHandle # EmptyString
        /\ \E j \in SuccessfulOpens :
               openLog[j].handle = conns[i].sessionHandle

\* ------------------------------------------------------------ sqlDriver.Open

\* The connection strings given to Open.
OpenDSNs ==
    {<<"u">>,
     <<"u", "?", "a", "=", "1">>,
     <<"u", "?", "a">>,
     <<"h", ":", "8", "?", "a", "=", "1", "&", "b", "=", "2">>}

\* Connect on a connector c that no other goroutine holds: the statements of
\* Connect in program order.  ok is the outcome of the OpenSession request,
\* the n-th the gateway receives.
ConnectAlone(c, ok, n) ==
    IF NeedsSession(c.sessionHandle)
    THEN LET r == OpenSession(ok, n)
             assigned == [c EXCEPT !.sessionHandle = r.sessionHandle]
         IN  IF AfterOpenSession(r.err) = "idle"
             THEN [err |-> "open session", conn |-> Nil, requests |-> <<r>>]
             ELSE [err |-> "nil",
                   conn |-> [sessionHandle |-> assigned.sessionHandle],
                   requests |-> <<r>>]
    ELSE [err |-> "nil", conn |-> [sessionHandle |-> c.sessionHandle],
          requests |-> << >>]

\* sqlDriver.Open(dsn): OpenConnector, then Connect on the connector it made.
Open(d, clientOk, ok, n) ==
    LET made_ == OpenConnector(d, clientOk)
    IN  IF made_.err # "nil"
        THEN [err |-> made_.err, conn |-> Nil, requests |-> << >>,
              clients |-> made_.clients, props |-> EmptyMap]
        ELSE LET r == ConnectAlone(made_.connector, ok, n)
             IN  [err |-> r.err, conn |-> r.conn, requests |-> r.requests,
                  clients |-> made_.clients,
                  props |-> made_.connector.properties]

\* The gateway's record of the OpenSession requests of one Open call, and
\* the sessions they opened.
LogOf(requests, props) ==
    [i \in 1 .. Len(requests) |->
        [props  |-> props,
         handle |-> requests[i].sessionHandle,
         err    |-> requests[i].err,
         thread |-> 0]]

OpenedBy(requests) ==
    {requests[i].sessionHandle : i \in {j \in 1 .. Len(requests) : ~requests[j].err}}

OpenAct ==
    /\ nCalls < MaxCalls
    /\ nCalls' = nCalls + 1
    /\ \E d \in OpenDSNs, clientOk \in BOOLEAN, ok \in BOOLEAN :
         LET r == Open(d, clientOk, ok, Len(openLog) + 1)
         IN  /\ openLog' = openLog \o LogOf(r.requests, r.props)
             /\ sessions' = sessions \cup OpenedBy(r.requests)
             /\ clientsBuilt' = clientsBuilt + r.clients
             /\ opened' = Append(opened,
                                 [dsn   |-> d,
                                  err   |-> r.err,
                                  conn  |-> r.conn,
                                  first |-> Len(openLog),
                                  last  |-> Len(openLog) + Len(r.requests)])
    /\ UNCHANGED <<made, dsn, options, connector, constructErr, pc, local,
                   opensInCall, begun, ret, conns, closeLog, nClose>>
    /\ UNCHANGED statementVars

OpenNext == OpenAct

OpenSpec == Init /\ [][OpenNext]_vars

\* The connection strings given to Open that have a key with no '=value'.
InvalidOpenDSNs == {d \in OpenDSNs : HasKeyWithoutValue(d)}

\* C17: every successful Open has issued exactly one OpenSession, which
\* succeeded, and returned a connection bound to the handle it returned; no
\* two successful Open calls are bound to the same session; an Open whose
\* dsn has a key with no '=value' returns an error and issues no OpenSession.
C17_OpenBuildsFreshConnector ==
    \A i \in DOMAIN opened :
        /\ opened[i].err = "nil" =>
              /\ opened[i].last = opened[i].first + 1
              /\ ~openLog[opened[i].last].err
              /\ opened[i].conn.sessionHandle # EmptyString
              /\ opened[i].conn.sessionHandle = openLog[opened[i].last].handle
              /\ \A j \in DOMAIN opened \ {i} :
                    opened[j].err = "nil" =>
                        opened[j].conn.sessionHandle
                            # opened[i].conn.sessionHandle
        /\ opened[i].err # "nil" => opened[i].conn = Nil
        /\ opened[i].dsn \in InvalidOpenDSNs =>
              /\ opened[i].err = "dsn"
              /\ opened[i].last = opened[i].first

\* Two Open calls with the same dsn have succeeded on different sessions, and
\* an Open with an invalid dsn has failed.
C17_Witness ==
    \E i \in DOMAIN opened : \E j \in DOMAIN opened : \E k \in DOMAIN opened :
        /\ i < j
        /\ opened[i].dsn = opened[j].dsn
        /\ opened[i].err = "nil"
        /\ opened[j].err = "nil"
        /\ opened[i].conn.sessionHandle # opened[j].conn.sessionHandle
        /\ opened[k].err = "dsn"
        /\ Len(openLog) = 2

\* --------------------------------------------------------- Operation Poller

connectorVars == <<made, dsn, options, connector, constructErr, clientsBuilt,
                   threadVars, opened>>

Statuses == {"PENDING", "RUNNING", "FINISHED", "ERROR", "CANCELED"}

TerminalStatuses == {"FINISHED", "ERROR", "CANCELED"}

\* A plausible slip: every terminal status ends the poll successfully.
PollOutcomeAnyTerminal(status) ==
    IF status \in TerminalStatuses THEN "success" ELSE "none"

\* What the poller does with a reported status: "none" is poll again.
PollOutcome(status) ==
    CASE status = "FINISHED" -> "success"
      [] status = "ERROR"    -> "OperationFailed"
      [] status = "CANCELED" -> "OperationCanceled"
      [] OTHER               -> "none"

\* The statement has been submitted and the poller starts.
PollerStart ==
    /\ poller.pc = "idle"
    /\ poller' = [poller EXCEPT !.pc = "poll"]
    /\ UNCHANGED <<connectorVars, ctx, pages, pager>>

\* One getOperationStatus call: the gateway reports a status, or the call
\* fails and the error is returned to the caller.
PollerPoll ==
    /\ poller.pc = "poll"
    /\ ctx = "live"
    /\ Len(poller.reported) < MaxPolls
    /\ \/ \E status \in Statuses :
            poller' = [poller EXCEPT
                          !.reported = Append(@, status),
                          !.result = PollOutcome(status),
                          !.pc = IF PollOutcome(status) = "none"
                                 THEN "wait" ELSE "done"]
       \/ poller' = [poller EXCEPT !.result = "ConnectionError", !.pc = "done"]
    /\ UNCHANGED <<connectorVars, ctx, pages, pager>>

\* The bounded wait between two polls has elapsed.
PollerBackoff ==
    /\ poller.pc = "wait"
    /\ ctx = "live"
    /\ poller' = [poller EXCEPT !.pc = "poll"]
    /\ UNCHANGED <<connectorVars, ctx, pages, pager>>

\* The caller cancels its context, or its deadline passes.
ContextDone ==
    /\ ctx = "live"
    /\ poller.pc \in {"poll", "wait"}
    /\ ctx' = "done"
    /\ UNCHANGED <<connectorVars, poller, pages, pager>>

\* The poller finds the context done: it sends cancelOperation, best effort,
\* and returns the cancellation to the caller.
PollerContextDone ==
    /\ poller.pc \in {"poll", "wait"}
    /\ ctx = "done"
    /\ poller' = [poller EXCEPT !.cancelSent = TRUE,
                                !.result = "ContextCanceled",
                                !.pc = "done"]
    /\ UNCHANGED <<connectorVars, ctx, pages, pager>>

PollerNext ==
    \/ PollerStart
    \/ PollerPoll
    \/ PollerBackoff
    \/ ContextDone
    \/ PollerContextDone

PollerSpec == Init /\ [][PollerNext]_vars

\* C11: the poller returns success only when the status last reported is
\* FINISHED, and whenever ERROR (CANCELED) has been reported it has returned
\* OperationFailed (OperationCanceled), whatever statuses were reported.
C11_PollerResultMatchesStatus ==
    /\ poller.result = "success" =>
          /\ poller.reported # << >>
          /\ poller.reported[Len(poller.reported)] = "FINISHED"
          /\ \A i \in 1 .. Len(poller.reported) - 1 :
                 poller.reported[i] \notin TerminalStatuses
    /\ \A i \in DOMAIN poller.reported :
          /\ poller.reported[i] = "ERROR" =>
                (poller.pc = "done" /\ poller.result = "OperationFailed")
          /\ poller.reported[i] = "CANCELED" =>
                (poller.pc = "done" /\ poller.result = "OperationCanceled")

\* PENDING, RUNNING, then CANCELED have been reported.
C11_Witness ==
    /\ poller.reported = <<"PENDING", "RUNNING", "CANCELED">>
    /\ poller.result = "OperationCanceled"

\* ------------------------------------------------- Result Pager, Row Cursor

NoToken == 0

\* The rows of page k when it has n of them: row i of page k is <<k, i>>.
RowsOf(k, n) == [i \in 1 .. n |-> <<k, i>>]

\* The chain of pages with the given row counts: the token of page k + 1 is
\* k + 1, and the last page has none.
Chain(counts) ==
    [k \in 1 .. Len(counts) |->
        [rows |-> RowsOf(k, counts[k]),
         nextPageToken |-> IF k < Len(counts) THEN k + 1 ELSE NoToken]]

Chains ==
    {Chain(counts) :
        counts \in UNION {[1 .. n -> 0 .. MaxRows] : n \in 1 .. MaxPages}}

\* A plausible slip: a page without rows is taken for the end of the result.
EndOfResultsOnEmptyPage(pageRows, next) == next = NoToken \/ pageRows = 0

\* The result has ended when the page last fetched carries no next token.
EndOfResults(pageRows, next) == next = NoToken

\* The operation is FINISHED and the gateway holds a chain of pages for it;
\* the first fetch is made with no token, which asks for page 1.
PagerStart ==
    /\ pager.pc = "idle"
    /\ \E chain \in Chains : pages' = chain
    /\ pager' = [pager EXCEPT !.pc = "fetch", !.next = 1]
    /\ UNCHANGED <<connectorVars, poller, ctx>>

\* One fetchResultPage call: the page of the token, or an error that fails
\* the whole iteration.
PagerFetch ==
    /\ pager.pc = "fetch"
    /\ \/ pager' = [pager EXCEPT
                      !.buffer = pages[pager.next].rows,
                      !.pageRows = Len(pages[pager.next].rows),
                      !.fetched = Append(@, pager.next),
                      !.next = pages[pager.next].nextPageToken,
                      !.pc = "rows"]
       \/ pager' = [pager EXCEPT !.pc = "failed"]
    /\ UNCHANGED <<connectorVars, poller, ctx, pages>>

\* advance(): the next buffered row; with the buffer exhausted, the fetch of
\* the next page, or the end of the sequence.
CursorAdvance ==
    /\ pager.pc = "rows"
    /\ pager' =
         IF pager.buffer # << >>
         THEN [pager EXCEPT !.yielded = Append(@, Head(pager.buffer)),
                            !.buffer = Tail(@)]
         ELSE IF EndOfResults(pager.pageRows, pager.next)
         THEN [pager EXCEPT !.pc = "done"]
         ELSE [pager EXCEPT !.pc = "fetch"]
    /\ UNCHANGED <<connectorVars, poller, ctx, pages>>

PagerNext ==
    \/ PagerStart
    \/ PagerFetch
    \/ CursorAdvance

PagerSpec == Init /\ [][PagerNext]_vars

\* The rows of pages k .. Len(ps), page after page.
RECURSIVE RowsFrom(_, _)
RowsFrom(ps, k) ==
    IF k > Len(ps) THEN << >> ELSE ps[k].rows \o RowsFrom(ps, k + 1)

\* C12: when the cursor ends, it has yielded the rows of the pages of the
\* chain, in page order, none twice and none dropped, and every page was
\* fetched exactly once, in token order; before that, what it has yielded
\* is the beginning of those rows and no page was fetched twice.
C12_PagerYieldsConcatenation ==
    /\ pager.pc = "done" =>
          /\ pager.yielded = RowsFrom(pages, 1)
          /\ pager.fetched = [k \in 1 .. Len(pages) |-> k]
    /\ pager.pc # "idle" =>
          /\ Len(pager.yielded) <= Len(RowsFrom(pages, 1))
          /\ pager.yielded = SubSeq(RowsFrom(pages, 1), 1, Len(pager.yielded))
          /\ \A i \in DOMAIN pager.fetched : pager.fetched[i] = i

\* The cursor has ended over three pages of which the second has no rows.
C12_Witness ==
    /\ pager.pc = "done"
    /\ Len(pages) = 3
    /\ pages[1].rows # << >>
    /\ pages[2].rows = << >>
    /\ pages[3].rows # << >>
    /\ pager.yielded = pages[1].rows \o pages[3].rows

====
